---------------------------- MODULE Spec2Model ----------------------------
(***************************************************************************)
(* Rat25S front end (src/main.py): the recursive-descent parser with its   *)
(* inline semantic actions (symbol table) and instruction emission with    *)
(* backpatching, driven by main()'s loop over the test files.              *)
(*                                                                         *)
(* The parser's call stack is explicit: `stack` holds one frame per active *)
(* production procedure, the last element being the running one.  In a     *)
(* frame, pc is the procedure (and the point in it after a sub-production  *)
(* returned); v, terminators, start_label and patch_slot are its locals;   *)
(* t0 and i0 are the token index and the program counter at the time the   *)
(* procedure was called (bookkeeping used only by the properties).  One    *)
(* action runs one procedure from its current point up to its next call or *)
(* its return.                                                             *)
(* A raised exception sets status = "error" and freezes everything: main() *)
(* does not catch it.                                                      *)
(***************************************************************************)
EXTENDS Integers, Sequences, FiniteSets, TLC

VARIABLES
    files,                \* the test files main() iterates over
    i,                    \* main()'s loop index, 1-based
    status,               \* "loop" | "parsing" | "complete" | "error"
    tokens,               \* Parser.tokens
    current_token_index,  \* Parser.current_token_index (0-based)
    symbol_table,         \* dict in insertion order: <<[lexeme, addr, type]>>
    Memory_Address,       \* global address counter
    instructions,         \* written slots of the instruction array
    instr_ptr,            \* next instruction index
    stack,                \* the parser's call stack
    err,                  \* the exception that ended the run
    emits,                \* number of emit() calls of the run
    output                \* what main() wrote per finished run

vars == <<files, i, status, tokens, current_token_index, symbol_table,
          Memory_Address, instructions, instr_ptr, stack, err, emits, output>>

-----------------------------------------------------------------------------
(* Program constants *)

MAX_INSTR == 1000

BASE_ADDRESS == 10000

NumFiles == 3

KEYWORDS ==
    {"while", "endwhile", "if", "endif", "else", "integer", "boolean",
     "true", "false", "return", "print", "scan"}

OPERATORS == {"=", "+", "-", "*", "/", "<", "<=", ">", ">=", "==", "!=", "=>"}

SEPARATORS == {"(", ")", "{", "}", ";", ",", "[", "]", "$$"}

-----------------------------------------------------------------------------
(* Lexer: classification of a matched word.  The words of the model are    *)
(* drawn from a finite vocabulary; the three regular expressions of the    *)
(* classification are the membership tests in the vocabulary's identifier, *)
(* integer and real words.                                                 *)

IdentWords == {"x", "y", "i"}

IntWords == {"0", "3", "5"}

RealWords == {"1.5"}

IntOf(word) ==
    CASE word = "0" -> 0
      [] word = "3" -> 3
      [] word = "5" -> 5

TokenType(word) ==
    IF word \in KEYWORDS THEN "keyword"
    ELSE IF word \in OPERATORS THEN "operator"
    ELSE IF word \in SEPARATORS THEN "separator"
    ELSE IF word \in IdentWords THEN "identifier"
    ELSE IF word \in IntWords THEN "integer"
    ELSE IF word \in RealWords THEN "real"
    ELSE "unknown"

Token(word) == [token_type |-> TokenType(word), lexeme |-> word]

lexer(words) == [k \in 1..Len(words) |-> Token(words[k])]

\* Python's None as the current token
None == [token_type |-> "None", lexeme |-> "None"]

-----------------------------------------------------------------------------
(* The run state as one record, so that a procedure's statements compose.  *)
(* Every operation below is the identity on a state whose status is        *)
(* "error": the exception has left the procedure.                          *)

Cur ==
    [tokens |-> tokens, cti |-> current_token_index, st |-> symbol_table,
     ma |-> Memory_Address, ins |-> instructions, ip |-> instr_ptr,
     stack |-> stack, status |-> status, err |-> err, emits |-> emits]

Becomes(s) ==
    /\ current_token_index' = s.cti
    /\ symbol_table' = s.st
    /\ Memory_Address' = s.ma
    /\ instructions' = s.ins
    /\ instr_ptr' = s.ip
    /\ stack' = s.stack
    /\ status' = s.status
    /\ err' = s.err
    /\ emits' = s.emits
    /\ UNCHANGED <<files, i, tokens, output>>

NoError == [kind |-> "none", index |-> -1]

Ok(s) == s.status = "parsing"

\* an exception of Python's own (AttributeError, KeyError, IndexError) or the
\* one insert_identifier raises: no token index in its message
Raise(s, kind) ==
    IF Ok(s) THEN [s EXCEPT !.status = "error", !.err = [kind |-> kind, index |-> -1]]
    ELSE s

current_token(s) ==
    IF s.cti < Len(s.tokens) THEN s.tokens[s.cti + 1] ELSE None

IsNone(s) == current_token(s) = None

advance(s) == [s EXCEPT !.cti = s.cti + 1]

\* Parser.error: the message carries the token index.  The two messages that
\* start "Semantic Error: ... used without declaration" are the
\* use-before-declaration reports; every other message is a syntax error.
error(s, kind) ==
    IF Ok(s) THEN [s EXCEPT !.status = "error", !.err = [kind |-> kind, index |-> s.cti]]
    ELSE s

match(s, expected_type, expected_lexeme) ==
    IF ~Ok(s) THEN s
    ELSE IF /\ ~IsNone(s)
            /\ current_token(s).token_type = expected_type
            /\ (expected_lexeme = "" \/ current_token(s).lexeme = expected_lexeme)
         THEN advance(s)
         ELSE error(s, "SyntaxError")

IsTok(s, type, lexemes) ==
    /\ ~IsNone(s)
    /\ current_token(s).token_type = type
    /\ current_token(s).lexeme \in lexemes

-----------------------------------------------------------------------------
(* Instruction stream *)

\* emit() writes its operands with str(); an operand is a number (a literal,
\* an address, a label), an identifier's name, or absent
NoArg == [kind |-> "none", num |-> 0, name |-> ""]

Num(n) == [kind |-> "num", num |-> n, name |-> ""]

Name(lexeme) == [kind |-> "name", num |-> 0, name |-> lexeme]

Instr(pos, op, arg) == [pos |-> pos, op |-> op, arg |-> arg]

\* emit without `instr_ptr += 1`
emit_NoAdvance(s, op, arg) ==
    IF ~Ok(s) THEN s
    ELSE IF s.ip > MAX_INSTR THEN Raise(s, "IndexError")
    ELSE [s EXCEPT
            !.ins = [k \in DOMAIN s.ins \cup {s.ip} |->
                        IF k = s.ip THEN Instr(s.ip, op, arg) ELSE s.ins[k]],
            !.emits = s.emits + 1]

emit(s, op, arg) ==
    IF ~Ok(s) THEN s
    ELSE IF s.ip > MAX_INSTR THEN Raise(s, "IndexError")
    ELSE [s EXCEPT
            !.ins = [k \in DOMAIN s.ins \cup {s.ip} |->
                        IF k = s.ip THEN Instr(s.ip, op, arg) ELSE s.ins[k]],
            !.ip = s.ip + 1,
            !.emits = s.emits + 1]

\* the patch with the exit target taken before the backward jump is emitted
patch_Early(s, patch_slot, exit_target) ==
    IF ~Ok(s) THEN s
    ELSE [s EXCEPT
            !.ins = [k \in DOMAIN s.ins \cup {patch_slot} |->
                        IF k = patch_slot
                        THEN Instr(patch_slot, "JMP0", Num(exit_target - 1))
                        ELSE s.ins[k]]]

\* instructions[patch_slot-1] = f"{patch_slot} JMP0 {exit_target}"
patch(s, patch_slot, exit_target) ==
    IF ~Ok(s) THEN s
    ELSE [s EXCEPT
            !.ins = [k \in DOMAIN s.ins \cup {patch_slot} |->
                        IF k = patch_slot THEN Instr(patch_slot, "JMP0", Num(exit_target))
                        ELSE s.ins[k]]]

\* print_assembly: the listing of slots 1 .. instr_ptr-1, empty slots skipped
RECURSIVE Listing(_, _, _)
Listing(ins, k, ip) ==
    IF k > ip - 1 THEN <<>>
    ELSE IF k \in DOMAIN ins
         THEN <<[idx |-> k, op |-> ins[k].op, arg |-> ins[k].arg]>> \o Listing(ins, k + 1, ip)
         ELSE Listing(ins, k + 1, ip)

print_assembly(ins, ip) == Listing(ins, 1, ip)

-----------------------------------------------------------------------------
(* Symbol table *)

Names(st) == {st[k].lexeme : k \in 1..Len(st)}

is_declared(st, lexeme) == lexeme \in Names(st)

Lookup(st, lexeme) == CHOOSE k \in 1..Len(st) : st[k].lexeme = lexeme

AddressOf(st, lexeme) == st[Lookup(st, lexeme)].addr

\* insert_identifier without its is_declared test: the dict entry of a name
\* that is present is overwritten
insert_identifier_Unchecked(s, lexeme, var_type) ==
    IF ~Ok(s) THEN s
    ELSE [s EXCEPT
            !.st = IF is_declared(s.st, lexeme)
                   THEN [s.st EXCEPT ![Lookup(s.st, lexeme)] =
                            [lexeme |-> lexeme, addr |-> s.ma, type |-> var_type]]
                   ELSE Append(s.st, [lexeme |-> lexeme, addr |-> s.ma, type |-> var_type]),
            !.ma = s.ma + 1]

insert_identifier(s, lexeme, var_type) ==
    IF ~Ok(s) THEN s
    ELSE IF is_declared(s.st, lexeme) THEN Raise(s, "DuplicateDeclaration")
    ELSE [s EXCEPT
            !.st = Append(s.st, [lexeme |-> lexeme, addr |-> s.ma, type |-> var_type]),
            !.ma = s.ma + 1]

print_symbol_table(st) == st

-----------------------------------------------------------------------------
(* Call stack *)

Frame(pc, s) ==
    [pc |-> pc, v |-> "", terminators |-> {}, start_label |-> 0, patch_slot |-> 0,
     t0 |-> s.cti, i0 |-> s.ip]

Top(s) == s.stack[Len(s.stack)]

Rest(s) == SubSeq(s.stack, 1, Len(s.stack) - 1)

\* the running procedure calls `callee` and will resume at `resume`
Call(s, resume, callee) ==
    IF ~Ok(s) THEN s
    ELSE [s EXCEPT !.stack = Rest(s) \o <<resume, callee>>]

\* the running procedure ends by calling `callee` (nothing follows the call)
TailCall(s, callee) ==
    IF ~Ok(s) THEN s
    ELSE [s EXCEPT !.stack = Rest(s) \o <<callee>>]

\* the running procedure returns; parse_rat25s returning ends the parse
Return(s) ==
    IF ~Ok(s) THEN s
    ELSE [s EXCEPT !.stack = Rest(s),
                   !.status = IF Len(s.stack) = 1 THEN "complete" ELSE "parsing"]

At(pcs) == status = "parsing" /\ Top(Cur).pc \in pcs

-----------------------------------------------------------------------------
(* Parser: one action per production procedure *)

\* the while loop of parse_rat25s over repeated "$$"
RECURSIVE SkipDelimiters(_)
SkipDelimiters(s) ==
    IF Ok(s) /\ IsTok(s, "separator", {"$$"})
    THEN SkipDelimiters(match(s, "separator", "$$"))
    ELSE s

parse_rat25s ==
    /\ At({"parse_rat25s", "parse_rat25s_1", "parse_rat25s_2"})
    /\ LET s == Cur
           f == Top(s)
       IN  Becomes(
             CASE f.pc = "parse_rat25s" ->
                    LET s1 == SkipDelimiters(match(s, "separator", "$$"))
                    IN  Call(s1, [f EXCEPT !.pc = "parse_rat25s_1"],
                             Frame("opt_declaration_list", s1))
               [] f.pc = "parse_rat25s_1" ->
                    LET s1 == IF IsTok(s, "separator", {"$$"})
                              THEN match(s, "separator", "$$") ELSE s
                    IN  Call(s1, [f EXCEPT !.pc = "parse_rat25s_2"],
                             [Frame("statement_list", s1) EXCEPT !.terminators = {"$$"}])
               [] f.pc = "parse_rat25s_2" ->
                    Return(match(s, "separator", "$$")))

opt_declaration_list ==
    /\ At({"opt_declaration_list"})
    /\ LET s == Cur
       IN  Becomes(
             IF IsTok(s, "keyword", {"integer", "boolean"})
             THEN TailCall(s, Frame("declaration_list", s))
             ELSE Return(s))

\* the loop test of declaration_list, reached after each `Declaration ;`
declaration_list ==
    /\ At({"declaration_list", "declaration_list_1"})
    /\ LET s == Cur
           f == Top(s)
       IN  Becomes(
             CASE f.pc = "declaration_list" ->
                    Call(s, [f EXCEPT !.pc = "declaration_list_1"], Frame("declaration", s))
               [] f.pc = "declaration_list_1" ->
                    LET s1 == match(s, "separator", ";")
                    IN  IF Ok(s1) /\ IsTok(s1, "keyword", {"integer", "boolean", "real"})
                        THEN Call(s1, f, Frame("declaration", s1))
                        ELSE Return(s1))

qualifier(s) ==
    IF current_token(s).lexeme \in {"integer", "boolean"}
    THEN match(s, "keyword", "")
    ELSE error(s, "SyntaxError")

declaration ==
    /\ At({"declaration"})
    /\ LET s == Cur
           var_type == current_token(s).lexeme
           s1 == qualifier(s)
       IN  Becomes(TailCall(s1, [Frame("ids", s1) EXCEPT !.v = var_type]))

\* one iteration of the `while True` loop of ids
ids ==
    /\ At({"ids"})
    /\ LET s == Cur
           var_type == Top(s).v
           name == current_token(s).lexeme
           s1 == IF ~IsNone(s) /\ current_token(s).token_type = "identifier"
                 THEN LET s0 == IF var_type # ""
                                THEN insert_identifier(s, name, var_type)
                                ELSE IF ~is_declared(s.st, name)
                                     THEN error(s, "UseBeforeDeclaration")
                                     ELSE s
                      IN  match(s0, "identifier", "")
                 ELSE error(s, "SyntaxError")
       IN  Becomes(
             IF Ok(s1) /\ IsTok(s1, "separator", {","})
             THEN match(s1, "separator", ",")
             ELSE Return(s1))

statement_list ==
    /\ At({"statement_list"})
    /\ LET s == Cur
       IN  Becomes(
             IF ~IsNone(s) /\ current_token(s).lexeme \notin Top(s).terminators
             THEN Call(s, Top(s), Frame("statement", s))
             ELSE Return(s))

statement ==
    /\ At({"statement"})
    /\ LET s == Cur
           tok == current_token(s)
       IN  Becomes(
             IF IsNone(s) THEN Raise(s, "AttributeError")
             ELSE IF tok.token_type = "separator" /\ tok.lexeme = "{"
                  THEN TailCall(s, Frame("compound_statement", s))
             ELSE IF tok.token_type = "keyword"
                  THEN IF tok.lexeme = "if" THEN TailCall(s, Frame("if_statement", s))
                       ELSE IF tok.lexeme = "while" THEN TailCall(s, Frame("while_statement", s))
                       ELSE IF tok.lexeme = "return" THEN TailCall(s, Frame("return_statement", s))
                       ELSE IF tok.lexeme = "print" THEN TailCall(s, Frame("print_statement", s))
                       ELSE IF tok.lexeme = "scan" THEN TailCall(s, Frame("scan_statement", s))
                       ELSE error(s, "SyntaxError")
             ELSE IF tok.token_type = "identifier"
                  THEN TailCall(s, Frame("assignment", s))
             ELSE error(s, "SyntaxError"))

compound_statement ==
    /\ At({"compound_statement", "compound_statement_1"})
    /\ LET s == Cur
           f == Top(s)
       IN  Becomes(
             CASE f.pc = "compound_statement" ->
                    LET s1 == match(s, "separator", "{")
                    IN  Call(s1, [f EXCEPT !.pc = "compound_statement_1"],
                             [Frame("statement_list", s1) EXCEPT !.terminators = {"}"}])
               [] f.pc = "compound_statement_1" ->
                    Return(match(s, "separator", "}")))

\* assignment with the store emitted before the expression is parsed
assignment_StoreFirst ==
    /\ At({"assignment", "assignment_1"})
    /\ LET s == Cur
           f == Top(s)
       IN  Becomes(
             CASE f.pc = "assignment" ->
                    LET var_name == current_token(s).lexeme
                        s1 == emit(match(match(s, "identifier", ""), "operator", "="),
                                   "STO", Name(var_name))
                    IN  Call(s1, [f EXCEPT !.pc = "assignment_1", !.v = var_name],
                             Frame("expression", s1))
               [] f.pc = "assignment_1" ->
                    Return(match(s, "separator", ";")))

assignment ==
    /\ At({"assignment", "assignment_1"})
    /\ LET s == Cur
           f == Top(s)
       IN  Becomes(
             CASE f.pc = "assignment" ->
                    LET var_name == current_token(s).lexeme
                        s1 == match(match(s, "identifier", ""), "operator", "=")
                    IN  Call(s1, [f EXCEPT !.pc = "assignment_1", !.v = var_name],
                             Frame("expression", s1))
               [] f.pc = "assignment_1" ->
                    Return(emit(match(s, "separator", ";"), "STO", Name(f.v))))

scan_statement ==
    /\ At({"scan_statement"})
    /\ LET s == Cur
           s1 == match(match(s, "keyword", "scan"), "separator", "(")
           scanned_name == current_token(s1).lexeme
           s2 == IF Ok(s1) /\ IsNone(s1) THEN Raise(s1, "AttributeError") ELSE s1
           s3 == match(match(match(s2, "identifier", ""), "separator", ")"), "separator", ";")
           s4 == IF Ok(s3) /\ ~is_declared(s3.st, scanned_name)
                 THEN Raise(s3, "KeyError") ELSE s3
       IN  Becomes(
             IF Ok(s4)
             THEN Return(emit(emit(s4, "SIN", NoArg), "POPM",
                              Num(AddressOf(s4.st, scanned_name))))
             ELSE s4)

print_statement ==
    /\ At({"print_statement", "print_statement_1"})
    /\ LET s == Cur
           f == Top(s)
       IN  Becomes(
             CASE f.pc = "print_statement" ->
                    LET s1 == match(match(s, "keyword", "print"), "separator", "(")
                    IN  Call(s1, [f EXCEPT !.pc = "print_statement_1"],
                             Frame("expression", s1))
               [] f.pc = "print_statement_1" ->
                    Return(emit(match(match(s, "separator", ")"), "separator", ";"),
                                "SOUT", NoArg)))

while_statement ==
    /\ At({"while_statement", "while_statement_1", "while_statement_2"})
    /\ LET s == Cur
           f == Top(s)
       IN  Becomes(
             CASE f.pc = "while_statement" ->
                    LET s1 == match(match(s, "keyword", "while"), "separator", "(")
                    IN  Call(s1, [f EXCEPT !.pc = "while_statement_1"],
                             Frame("condition", s1))
               [] f.pc = "while_statement_1" ->
                    LET s1 == match(s, "separator", ")")
                        start_label == s1.ip
                        s2 == emit(s1, "LABEL", NoArg)
                        patch_slot == s2.ip
                        s3 == match(emit(s2, "JMP0", Num(0)), "separator", "{")
                    IN  Call(s3, [f EXCEPT !.pc = "while_statement_2",
                                           !.start_label = start_label,
                                           !.patch_slot = patch_slot],
                             [Frame("statement_list", s3) EXCEPT !.terminators = {"}"}])
               [] f.pc = "while_statement_2" ->
                    LET s1 == emit(match(s, "separator", "}"), "JMP", Num(f.start_label))
                        exit_target == s1.ip
                        s2 == patch(s1, f.patch_slot, exit_target)
                    IN  Return(match(s2, "keyword", "endwhile")))

if_statement ==
    /\ At({"if_statement", "if_statement_1", "if_statement_2", "if_statement_3"})
    /\ LET s == Cur
           f == Top(s)
       IN  Becomes(
             CASE f.pc = "if_statement" ->
                    LET s1 == match(match(s, "keyword", "if"), "separator", "(")
                    IN  Call(s1, [f EXCEPT !.pc = "if_statement_1"], Frame("condition", s1))
               [] f.pc = "if_statement_1" ->
                    LET s1 == match(s, "separator", ")")
                    IN  Call(s1, [f EXCEPT !.pc = "if_statement_2"], Frame("statement", s1))
               [] f.pc = "if_statement_2" ->
                    IF ~IsNone(s) /\ current_token(s).lexeme = "else"
                    THEN LET s1 == match(s, "keyword", "else")
                         IN  Call(s1, [f EXCEPT !.pc = "if_statement_3"],
                                  Frame("statement", s1))
                    ELSE Return(match(s, "keyword", "endif"))
               [] f.pc = "if_statement_3" ->
                    Return(match(s, "keyword", "endif")))

return_statement ==
    /\ At({"return_statement", "return_statement_1"})
    /\ LET s == Cur
           f == Top(s)
       IN  Becomes(
             CASE f.pc = "return_statement" ->
                    LET s1 == match(s, "keyword", "return")
                    IN  IF Ok(s1) /\ ~IsNone(s1) /\ current_token(s1).lexeme # ";"
                        THEN Call(s1, [f EXCEPT !.pc = "return_statement_1"],
                                  Frame("expression", s1))
                        ELSE Return(match(s1, "separator", ";"))
               [] f.pc = "return_statement_1" ->
                    Return(match(s, "separator", ";")))

cmp_map(relop) ==
    CASE relop = "<" -> "CMP_LT"
      [] relop = ">" -> "CMP_GT"
      [] relop = "==" -> "CMP_EQ"
      [] relop = "!=" -> "CMP_NE"
      [] relop = "<=" -> "CMP_LE"
      [] relop = ">=" -> "CMP_GE"

RelOps == {"<", ">", "==", "!=", "<=", ">="}

condition ==
    /\ At({"condition", "condition_1", "condition_2"})
    /\ LET s == Cur
           f == Top(s)
       IN  Becomes(
             CASE f.pc = "condition" ->
                    Call(s, [f EXCEPT !.pc = "condition_1"], Frame("expression", s))
               [] f.pc = "condition_1" ->
                    IF IsNone(s) THEN Raise(s, "AttributeError")
                    ELSE LET relop == current_token(s).lexeme
                             s1 == match(s, "operator", "")
                         IN  Call(s1, [f EXCEPT !.pc = "condition_2", !.v = relop],
                                  Frame("expression", s1))
               [] f.pc = "condition_2" ->
                    IF f.v \notin RelOps THEN Raise(s, "KeyError")
                    ELSE Return(emit(s, cmp_map(f.v), NoArg)))

ArithOps == {"+", "-", "*", "/"}

ArithInstr(op) ==
    CASE op = "+" -> "A"
      [] op = "-" -> "S"
      [] op = "*" -> "M"
      [] op = "/" -> "D"

\* the operand branch of expression: integer, identifier, boolean literal
Operand(s) ==
    LET tok == current_token(s)
    IN  IF IsNone(s) THEN Raise(s, "AttributeError")
        ELSE IF tok.token_type = "integer"
             THEN emit(match(s, "integer", ""), "PUSHI", Num(IntOf(tok.lexeme)))
        ELSE IF tok.token_type = "identifier"
             THEN IF ~is_declared(s.st, tok.lexeme)
                  THEN error(s, "UseBeforeDeclaration")
                  ELSE emit(match(s, "identifier", ""), "PUSHM",
                            Num(AddressOf(s.st, tok.lexeme)))
        ELSE IF tok.token_type = "keyword" /\ tok.lexeme \in {"true", "false"}
             THEN emit(match(s, "keyword", ""), "PUSHI",
                       Num(IF tok.lexeme = "true" THEN 1 ELSE 0))
        ELSE error(s, "SyntaxError")

\* the operator loop taking one operand as the right operand of each
\* operator (left-to-right grouping)
RECURSIVE OperatorLoop_LeftToRight(_)
OperatorLoop_LeftToRight(s) ==
    IF Ok(s) /\ IsTok(s, "operator", ArithOps)
    THEN LET op == current_token(s).lexeme
         IN  OperatorLoop_LeftToRight(
                emit(Operand(match(s, "operator", "")), ArithInstr(op), NoArg))
    ELSE Return(s)

\* the test of expression's `while` over binary operators
OperatorLoop(s) ==
    IF Ok(s) /\ IsTok(s, "operator", ArithOps)
    THEN LET op == current_token(s).lexeme
             s1 == match(s, "operator", "")
         IN  Call(s1, [Top(s) EXCEPT !.pc = "expression_1", !.v = op],
                  Frame("expression", s1))
    ELSE Return(s)

expression ==
    /\ At({"expression", "expression_1"})
    /\ LET s == Cur
           f == Top(s)
       IN  Becomes(
             CASE f.pc = "expression" -> OperatorLoop(Operand(s))
               [] f.pc = "expression_1" -> OperatorLoop(emit(s, ArithInstr(f.v), NoArg)))

-----------------------------------------------------------------------------
(* main() *)

\* the reset without `Memory_Address = 10000`
Reset_KeepsCounter(s) ==
    [s EXCEPT !.st = <<>>, !.ins = <<>>, !.ip = 1]

\* lines 443-446: the per-run reset
Reset(s) ==
    [s EXCEPT !.st = <<>>, !.ma = BASE_ADDRESS, !.ins = <<>>, !.ip = 1]

\* top of one iteration of the loop over the test files: reset, open the
\* file (a missing file is skipped), tokenize, construct the Parser and
\* enter parse_rat25s
main_run ==
    /\ status = "loop"
    /\ i <= NumFiles
    /\ LET s == Reset(Cur)
       IN  /\ symbol_table' = s.st
           /\ Memory_Address' = s.ma
           /\ instructions' = s.ins
           /\ instr_ptr' = s.ip
           /\ emits' = 0
           /\ err' = NoError
           /\ current_token_index' = 0
           /\ IF files[i].found
              THEN /\ tokens' = lexer(files[i].words)
                   /\ stack' = <<[Frame("parse_rat25s", s) EXCEPT !.t0 = 0, !.i0 = 1]>>
                   /\ status' = "parsing"
                   /\ i' = i
              ELSE /\ tokens' = <<>>
                   /\ stack' = <<>>
                   /\ status' = "loop"
                   /\ i' = i + 1
           /\ UNCHANGED <<files, output>>

\* parse_rat25s returned: the symbol table and the assembly listing are
\* printed and written to the output file; next file
main_report ==
    /\ status = "complete"
    /\ output' = [output EXCEPT ![i] =
                     [written |-> TRUE,
                      symbols |-> print_symbol_table(symbol_table),
                      assembly |-> print_assembly(instructions, instr_ptr)]]
    /\ status' = "loop"
    /\ i' = i + 1
    /\ UNCHANGED <<files, tokens, current_token_index, symbol_table, Memory_Address,
                   instructions, instr_ptr, stack, err, emits>>

-----------------------------------------------------------------------------
(* Inputs: the contents of the test files, as the sequences of words the    *)
(* lexer's token pattern finds in them.  The scenarios are those of the     *)
(* specification; the other programs are derived from them or generated.   *)

ScenarioA ==
    <<"$$", "integer", "x", ";", "$$",
      "x", "=", "5", ";", "print", "(", "x", ")", ";", "$$">>

ScenarioB == <<"$$", "integer", "x", ";", "$$", "y", "=", "5", ";", "$$">>

ScenarioC == <<"$$", "integer", "x", ";", "integer", "x", ";", "$$", "$$">>

ScenarioD ==
    <<"$$", "integer", "i", ";", "$$", "i", "=", "0", ";",
      "while", "(", "i", "<", "3", ")", "{", "i", "=", "i", "+", "5", ";", "}",
      "endwhile", "$$">>

NestedLoops ==
    <<"$$", "integer", "x", ",", "y", ";", "$$",
      "while", "(", "x", "<", "3", ")", "{",
         "while", "(", "y", "<=", "x", ")", "{", "scan", "(", "y", ")", ";", "}", "endwhile",
         "x", "=", "x", "+", "5", ";",
      "}", "endwhile", "$$">>

Branches ==
    <<"$$", "boolean", "y", ";", "integer", "x", ";", "$$",
      "if", "(", "x", "==", "5", ")", "{", "y", "=", "true", ";", "}",
      "else", "return", "x", "*", "3", "-", "5", "/", "x", ";", "endif",
      "return", ";", "$$">>

\* the Primary forms of the grammar as operands
PrimaryForms ==
    <<"$$", "integer", "x", ";", "$$",
      "x", "=", "(", "5", ")", ";", "x", "=", "1.5", ";", "x", "=", "y", "(", "x", ")", ";",
      "$$">>

Curated ==
    {ScenarioA, ScenarioB, ScenarioC, ScenarioD, NestedLoops, Branches, PrimaryForms}

Vocabulary ==
    KEYWORDS \cup {"=", "+", "*", "<", "=>", "(", ")", "{", "}", ";", ",", "$$"}
    \cup {"x", "y", "5", "1.5", "!"}

\* every proper prefix of a program: the input ends inside a production
Truncations(p) == {SubSeq(p, 1, n) : n \in 0..(Len(p) - 1)}

\* one word of a program replaced by any word of the vocabulary
Substitutions(p) ==
    {[p EXCEPT ![k] = w] : k \in 1..Len(p), w \in Vocabulary}

\* generated programs: $$ declarations $$ then up to MaxStmts fragments
MaxStmts == 3

DeclarationSections ==
    {<<>>,
     <<"integer", "x", ";">>,
     <<"integer", "x", ",", "y", ";">>,
     <<"boolean", "y", ";", "integer", "x", ";">>,
     <<"integer", "x", ",", "y", ";", "boolean", "x", ";">>}

Fragments ==
    {<<"x", "=", "5", ";">>,
     <<"y", "=", "x", "+", "3", "*", "y", ";">>,
     <<"print", "(", "x", "-", "true", ")", ";">>,
     <<"scan", "(", "y", ")", ";">>,
     <<"while", "(", "x", "<", "3", ")", "{">>,
     <<"}", "endwhile">>,
     <<"if", "(", "x", "!=", "y", ")", "x", "=", "0", ";", "else">>,
     <<"endif">>,
     <<"return", "x", ";">>,
     <<"$$">>}

RECURSIVE FragmentLists(_)
FragmentLists(n) ==
    IF n = 0 THEN {<<>>}
    ELSE LET shorter == FragmentLists(n - 1)
         IN  shorter \cup {l \o f : l \in shorter, f \in Fragments}

Generated ==
    {<<"$$">> \o d \o <<"$$">> \o body :
        d \in DeclarationSections, body \in FragmentLists(MaxStmts)}

Programs ==
    Generated \cup Curated
    \cup UNION {Truncations(p) : p \in Curated}
    \cup UNION {Substitutions(p) : p \in Curated}

File(words) == [found |-> TRUE, words |-> words]

Missing == [found |-> FALSE, words |-> <<>>]

\* the programs run again after another program
Reruns == {ScenarioA, ScenarioD, NestedLoops, Branches, ScenarioB}

FileLists ==
    {<<File(p), File(p), Missing>> : p \in Programs}
    \cup {<<File(p), File(q), File(p)>> : p \in Reruns, q \in Reruns}
    \cup {<<Missing, File(q), File(p)>> : p \in Reruns, q \in Reruns}

-----------------------------------------------------------------------------

NoOutput == [written |-> FALSE, symbols |-> <<>>, assembly |-> <<>>]

\* the module's globals as loaded, before main() runs
Init ==
    /\ files \in FileLists
    /\ i = 1
    /\ status = "loop"
    /\ tokens = <<>>
    /\ current_token_index = 0
    /\ symbol_table = <<>>
    /\ Memory_Address = BASE_ADDRESS
    /\ instructions = <<>>
    /\ instr_ptr = 1
    /\ stack = <<>>
    /\ err = NoError
    /\ emits = 0
    /\ output = [k \in 1..NumFiles |-> NoOutput]

Next ==
    \/ main_run
    \/ main_report
    \/ parse_rat25s
    \/ opt_declaration_list
    \/ declaration_list
    \/ declaration
    \/ ids
    \/ statement_list
    \/ statement
    \/ compound_statement
    \/ assignment
    \/ scan_statement
    \/ print_statement
    \/ while_statement
    \/ if_statement
    \/ return_statement
    \/ condition
    \/ expression

Spec == Init /\ [][Next]_vars

-----------------------------------------------------------------------------
(* Properties *)

InRun == status \in {"parsing", "complete", "error"}

Consumed == SubSeq(tokens, 1, current_token_index)

Lexemes(toks) == [k \in 1..Len(toks) |-> toks[k].lexeme]

IsIdentifier(tok) == tok.token_type = "identifier"

Slots == DOMAIN instructions

SlotsWith(ins, op) == {k \in DOMAIN ins : ins[k].op = op}

\* C1: a run that succeeds has referenced no undeclared identifier: every
\* identifier token the parser consumed (as an assignment target, a scan
\* operand or an expression operand) is in the symbol table.
C1_UndeclaredUseFails ==
    status = "complete" =>
        \A k \in 1..current_token_index :
            IsIdentifier(tokens[k]) => is_declared(symbol_table, tokens[k].lexeme)

\* C4: there is no partial success: when the parser reports completion the
\* whole token sequence has been consumed and its last token is "$$".
C4_NoPartialSuccess ==
    status = "complete" =>
        /\ current_token_index = Len(tokens)
        /\ tokens[Len(tokens)].lexeme = "$$"

Taxonomy ==
    {"SyntaxError", "DuplicateDeclaration", "UseBeforeDeclaration", "InstructionOverflow"}

\* C6: a run that fails ends with one error of the taxonomy, reported with
\* the index of the offending token.
C6_ErrorOfTaxonomyWithIndex ==
    status = "error" =>
        /\ err.kind \in Taxonomy
        /\ err.index = current_token_index

\* the tokens a Primary can begin with
StartsPrimary(tok) ==
    \/ tok.token_type \in {"identifier", "integer", "real"}
    \/ tok.token_type = "keyword" /\ tok.lexeme \in {"true", "false"}
    \/ tok.token_type = "separator" /\ tok.lexeme = "("

\* C8: the operand of an Expression may be any Primary form: expression()
\* never rejects a token that begins a Primary.
C8_PrimaryOperandAccepted ==
    (status = "error" /\ err.kind = "SyntaxError" /\ Top(Cur).pc = "expression")
        => ~StartsPrimary(current_token(Cur))

InDeclarations ==
    \E k \in 1..Len(stack) : stack[k].pc \in {"declaration_list", "declaration_list_1"}

IdentifiersOf(toks) == Lexemes(SelectSeq(toks, IsIdentifier))

C2_Table ==
    InRun =>
        /\ \A k \in 1..Len(symbol_table) :
              /\ symbol_table[k].addr = BASE_ADDRESS + (k - 1)
              /\ symbol_table[k].type \in {"integer", "boolean"}
        /\ \A j, k \in 1..Len(symbol_table) :
              j # k => symbol_table[j].lexeme # symbol_table[k].lexeme
        /\ Memory_Address = BASE_ADDRESS + Len(symbol_table)
        \* while the declarations are parsed, the table lists the identifiers
        \* consumed so far, in their order
        /\ InDeclarations => Lexemes(symbol_table) = IdentifiersOf(Consumed)
        \* scenario C fails on the second x (token index 5)
        /\ (tokens = lexer(ScenarioC) /\ status # "parsing") =>
              /\ status = "error"
              /\ err.kind = "DuplicateDeclaration"
              /\ current_token_index = 5

C2_Step ==
    /\ (status = "parsing" /\ symbol_table' # symbol_table) =>
          /\ Len(symbol_table') = Len(symbol_table) + 1
          /\ SubSeq(symbol_table', 1, Len(symbol_table)) = symbol_table
          /\ symbol_table'[Len(symbol_table')].lexeme = current_token(Cur).lexeme
    /\ (status = "parsing" /\ err'.kind = "DuplicateDeclaration") =>
          /\ is_declared(symbol_table, current_token(Cur).lexeme)
          /\ symbol_table' = symbol_table
          /\ Memory_Address' = Memory_Address
    /\ (status = "parsing" /\ Top(Cur).pc = "ids" /\ IsIdentifier(current_token(Cur))
          /\ is_declared(symbol_table, current_token(Cur).lexeme)) =>
          err'.kind = "DuplicateDeclaration"

\* C2: the k-th declared name has address base+(k-1), names are unique, the
\* counter is base + number of entries; the table only grows, by the name
\* being declared; declaring a present name fails with DuplicateDeclaration
\* and leaves the table and the counter unchanged.
C2_SymbolTable == []C2_Table /\ [][C2_Step]_vars

C2_Witness ==
    /\ status = "error"
    /\ err.kind = "DuplicateDeclaration"
    /\ Len(symbol_table) = 2
    /\ Memory_Address = BASE_ADDRESS + 2
    /\ current_token(Cur).lexeme = symbol_table[1].lexeme

Placeholder(k) == Instr(k, "JMP0", Num(0))

Closes(pc) == status = "parsing" /\ Top(Cur).pc = pc /\ status' # "error"

WhilesIn(toks) == Len(SelectSeq(toks, LAMBDA tok : tok = Token("while")))

C3_Step ==
    /\ Closes("while_statement_2") =>
          LET f == Top(Cur)
              L == f.start_label
              exit == instr_ptr'
              range == f.i0..(instr_ptr' - 1)
              span == SubSeq(tokens, f.t0 + 1, current_token_index')
              InRange(op) == SlotsWith(instructions', op) \cap range
          IN  /\ instructions'[L] = Instr(L, "LABEL", NoArg)
              /\ f.patch_slot = L + 1
              /\ instructions[L + 1] = Placeholder(L + 1)
              /\ instructions'[L + 1] = Instr(L + 1, "JMP0", Num(exit))
              /\ instructions'[exit - 1] = Instr(exit - 1, "JMP", Num(L))
              /\ exit > L
              /\ {k \in SlotsWith(instructions', "JMP") : instructions'[k].arg = Num(L)}
                    = {exit - 1}
              /\ {k \in SlotsWith(instructions', "JMP0") : instructions'[k].arg = Num(exit)}
                    = {L + 1}
              \* the loop and the loops nested in it: one label, one patched
              \* exit jump and one backward jump per `while`
              /\ Cardinality(InRange("LABEL")) = WhilesIn(span)
              /\ Cardinality(InRange("JMP0")) = WhilesIn(span)
              /\ Cardinality(InRange("JMP")) = WhilesIn(span)
              /\ \A k \in InRange("JMP0") : instructions'[k].arg.num > k
    \* an exit jump is patched only by its own loop, and only while reserved
    /\ \A k \in SlotsWith(instructions, "JMP0") :
          (status = "parsing" /\ instructions'[k] # instructions[k]) =>
              /\ Top(Cur).pc = "while_statement_2"
              /\ k = Top(Cur).patch_slot
              /\ instructions[k] = Placeholder(k)

\* C3: a while loop parsed to its endwhile (nested ones included) has one
\* label position L, one reserved exit jump at L+1 patched once, one backward
\* jump to L; the exit target is the position after the backward jump, > L.
C3_WhileShape == [][C3_Step]_vars

C3_Witness ==
    /\ status = "complete"
    /\ \E a, b \in SlotsWith(instructions, "LABEL") :
          /\ a < b
          /\ instructions[a + 1].arg.num > instructions[b + 1].arg.num
          /\ instructions[b + 1].arg.num > b
          /\ instructions[instructions[b + 1].arg.num - 1] =
                Instr(instructions[b + 1].arg.num - 1, "JMP", Num(b))

ValueOps == {"PUSHI", "PUSHM", "A", "S", "M", "D"}

C5_ScenarioA ==
    (status = "complete" /\ tokens = lexer(ScenarioA)) =>
        /\ symbol_table = <<[lexeme |-> "x", addr |-> BASE_ADDRESS, type |-> "integer"]>>
        /\ instr_ptr = 5
        /\ print_assembly(instructions, instr_ptr) =
              <<[idx |-> 1, op |-> "PUSHI", arg |-> Num(5)],
                [idx |-> 2, op |-> "STO", arg |-> Name("x")],
                [idx |-> 3, op |-> "PUSHM", arg |-> Num(BASE_ADDRESS)],
                [idx |-> 4, op |-> "SOUT", arg |-> NoArg]>>

\* the statement that closes emitted, from its first instruction on, value
\* instructions only and then the one instruction `last`
EndsWith(last) ==
    LET f == Top(Cur)
    IN  /\ instr_ptr' = instr_ptr + 1
        /\ instr_ptr > f.i0
        /\ \A k \in f.i0..(instr_ptr - 1) : instructions'[k].op \in ValueOps
        /\ instructions'[instr_ptr] = last
        /\ \A k \in Slots : instructions'[k] = instructions[k]

C5_Step ==
    /\ Closes("assignment_1") =>
          EndsWith(Instr(instr_ptr, "STO", Name(tokens[Top(Cur).t0 + 1].lexeme)))
    /\ Closes("print_statement_1") => EndsWith(Instr(instr_ptr, "SOUT", NoArg))

\* C5: `id = expr;` emits the expression's value instructions and then one
\* store to id, `print(expr);` the expression's instructions and then one
\* output instruction; scenario A gives x at the base address and the stream
\* push-literal 5, store x, load x, output at positions 1..4.
C5_AssignAndPrint == []C5_ScenarioA /\ [][C5_Step]_vars

C5_Witness ==
    /\ status = "complete"
    /\ tokens = lexer(ScenarioA)
    /\ instructions[2].op = "STO"
    /\ instructions[4].op = "SOUT"

C9_Stream ==
    InRun =>
        /\ instr_ptr = 1 + emits
        /\ Slots = 1..(instr_ptr - 1)
        /\ \A k \in Slots : instructions[k].pos = k
        /\ status = "complete" => \A k \in Slots : instructions[k] # Placeholder(k)

C9_Step ==
    status = "parsing" =>
        /\ instr_ptr' >= instr_ptr
        /\ emits' - emits = instr_ptr' - instr_ptr
        /\ \A k \in Slots :
              /\ k \in DOMAIN instructions'
              /\ instructions'[k] # instructions[k] =>
                    /\ instructions[k] = Placeholder(k)
                    /\ instructions'[k].op = "JMP0"
                    /\ instructions'[k].arg.kind = "num"
                    /\ instructions'[k].arg.num > k

\* C9: the program counter is 1 + the number of emit calls, slots 1..pc-1
\* are written and the rest empty; a written slot changes only when a
\* reserved exit jump is patched, which happens once; a successful run ends
\* with no reserved placeholder left.
C9_AppendAndPatch == []C9_Stream /\ [][C9_Step]_vars

C9_Witness ==
    /\ status = "complete"
    /\ emits >= 12
    /\ \E k \in SlotsWith(instructions, "JMP0") : instructions[k].arg.num > k

PushOf(tok) ==
    IF tok.token_type = "integer" THEN <<"PUSHI", Num(IntOf(tok.lexeme))>>
    ELSE IF tok.token_type = "identifier"
         THEN <<"PUSHM", Num(AddressOf(symbol_table, tok.lexeme))>>
    ELSE <<"PUSHI", Num(IF tok.lexeme = "true" THEN 1 ELSE 0)>>

ArithmeticOf(tok) ==
    CASE tok.lexeme = "+" -> <<"A", NoArg>>
      [] tok.lexeme = "-" -> <<"S", NoArg>>
      [] tok.lexeme = "*" -> <<"M", NoArg>>
      [] tok.lexeme = "/" -> <<"D", NoArg>>

\* for p1 op1 p2 ... opn p(n+1): the pushes of p1 .. p(n+1), then the
\* instructions of opn .. op1
ExpectedCode(e) ==
    LET n == (Len(e) - 1) \div 2
    IN  [k \in 1..(n + 1) |-> PushOf(e[2 * k - 1])]
        \o [k \in 1..n |-> ArithmeticOf(e[2 * (n - k + 1)])]

ExpressionReturns ==
    /\ status = "parsing"
    /\ Top(Cur).pc \in {"expression", "expression_1"}
    /\ status' = "parsing"
    /\ Len(stack') < Len(stack)

C10_Step ==
    ExpressionReturns =>
        LET f == Top(Cur)
            e == SubSeq(tokens, f.t0 + 1, current_token_index')
            code == [k \in 1..(instr_ptr' - f.i0) |->
                        <<instructions'[f.i0 + k - 1].op, instructions'[f.i0 + k - 1].arg>>]
        IN  /\ Len(e) % 2 = 1
            /\ code = ExpectedCode(e)

\* C10: an expression p1 op1 p2 ... opn p(n+1) emits one push/load per
\* operand in source order, then one arithmetic instruction per operator in
\* reverse source order (right-to-left grouping, no precedence).
C10_ExpressionOrder == [][C10_Step]_vars

C10_Witness ==
    /\ status = "complete"
    /\ \E k \in Slots :
          /\ k + 6 \in Slots
          /\ [j \in 1..7 |-> instructions[k + j - 1].op] =
                <<"PUSHM", "PUSHI", "PUSHI", "PUSHM", "D", "S", "M">>

FirstRuns(b) == {a \in 1..(b - 1) : files[a].found /\ files[a].words = files[b].words}

C7_Rerun ==
    \* from any state of a run, finished, failed or under way, the reset
    \* gives the initial values
    /\ LET r == Reset(Cur)
       IN  r.st = <<>> /\ r.ma = BASE_ADDRESS /\ r.ip = 1 /\ r.ins = <<>>
    /\ \A b \in 1..NumFiles :
          output[b].written => \A a \in FirstRuns(b) : output[a] = output[b]
    /\ status = "error" => \A a \in FirstRuns(i) : ~output[a].written

C7_Step ==
    (status = "loop" /\ i <= NumFiles) =>
        /\ symbol_table' = <<>>
        /\ Memory_Address' = BASE_ADDRESS
        /\ instr_ptr' = 1
        /\ instructions' = <<>>

\* C7: the per-run reset restores the initial state, so a token sequence run
\* again after a reset gives the outcome, symbol table and instruction
\* listing of its first run.
C7_ResetIsolatesRuns == []C7_Rerun /\ [][C7_Step]_vars

C7_Witness ==
    /\ output[1].written /\ output[2].written /\ output[3].written
    /\ files[1] = files[3]
    /\ files[2] # files[1]
    /\ output[2].symbols # <<>>
    /\ Len(output[3].assembly) > 4

=============================================================================
